---------------------------- MODULE Spec2Model ----------------------------
(***************************************************************************)
(* semvercli: `read` prints one component of the semantic version stored   *)
(* at package.version of a Cargo.toml manifest, `bump` increments or sets  *)
(* one and rewrites the manifest (src/src/main.rs).                        *)
(*                                                                         *)
(* Strings are sequences of one-character strings.  The semver 0.9 /       *)
(* semver-parser 0.7 calls the program makes (Version::parse, Display,     *)
(* the increments) are modelled by what they compute and mapped to the    *)
(* lines of main.rs that call them.  A manifest text is a sequence of      *)
(* key/value lines; toml_edit keeps lines it is not asked to change.       *)
(***************************************************************************)
EXTENDS Integers, Sequences, FiniteSets, TLC

VARIABLES
    fs,               \* the manifest file: [exists, content]
    last,             \* the last invocation: its arguments and its outcome
    bumps,            \* number of bump invocations so far
    overflow_checks   \* build profile: TRUE = debug (overflow panics)

vars == <<fs, last, bumps, overflow_checks>>

\* ------------------------------------------------------------- bounds
\* width of the unsigned integer type standing for u64
U64Bits == 4
\* bump invocations per behaviour of Spec
MaxBumps == 1
\* longest label tried by SpecLabels
MaxLabelLen == 3

U64Max == 2^U64Bits - 1

\* ------------------------------------------------------------- characters
Digits == <<"0", "1", "2", "3", "4", "5", "6", "7", "8", "9">>

DigitSet == {Digits[i] : i \in 1..Len(Digits)}

Letters ==
    {"a", "b", "c", "d", "e", "f", "g", "h", "i", "j", "k", "l", "m",
     "n", "o", "p", "q", "r", "s", "t", "u", "v", "w", "x", "y", "z",
     "A", "B", "C", "D", "E", "F", "G", "H", "I", "J", "K", "L", "M",
     "N", "O", "P", "Q", "R", "S", "T", "U", "V", "W", "X", "Y", "Z"}

IsDigit(c) == c \in DigitSet

DigitVal(c) == CHOOSE d \in 0..9 : Digits[d + 1] = c

Drop(s, n) == SubSeq(s, n + 1, Len(s))

Take(s, n) == SubSeq(s, 1, n)

\* ------------------------------------------------------------- integers
\* u64's Display: decimal, no leading zeros
RECURSIVE u64_to_string(_)
u64_to_string(n) ==
    IF n < 10 THEN <<Digits[n + 1]>>
    ELSE Append(u64_to_string(n \div 10), Digits[(n % 10) + 1])

\* a value past the largest u64 is kept as "one past the largest"
Saturate(v) == IF v > U64Max THEN U64Max + 1 ELSE v

\* value of a digit string, saturating one past the largest u64
RECURSIVE DecValue(_)
DecValue(s) ==
    IF s = <<>> THEN 0
    ELSE Saturate(DecValue(Take(s, Len(s) - 1)) * 10 + DigitVal(s[Len(s)]))

\* number of leading characters of s that satisfy the class
RECURSIVE DigitPrefixLen(_)
DigitPrefixLen(s) ==
    IF s = <<>> \/ ~IsDigit(s[1]) THEN 0 ELSE 1 + DigitPrefixLen(Tail(s))

\* ------------------------------------------------------------- identifiers
Numeric(n) == [kind |-> "Numeric", num |-> n, str |-> <<>>]

AlphaNumeric(s) == [kind |-> "AlphaNumeric", num |-> 0, str |-> s]

\* str::parse::<u64>().ok() on the n digits matched, with their value v
ParseU64(v, n) ==
    IF n = 0 \/ v > U64Max THEN [ok |-> FALSE, val |-> 0, len |-> 0]
    ELSE [ok |-> TRUE, val |-> v, len |-> n]

\* semver-parser common::numeric_identifier: Alt('0', OneOrMore(digit)),
\* then str::parse::<u64>().ok()
numeric_identifier(s) ==
    IF s # <<>> /\ s[1] = "0" THEN [ok |-> TRUE, val |-> 0, len |-> 1]
    ELSE ParseU64(DecValue(Take(s, DigitPrefixLen(s))), DigitPrefixLen(s))

\* semver-parser common::is_alpha_numeric: anything numeric_identifier does
\* not consume whole (a leading zero, an overflow, a letter, nothing at all)
is_alpha_numeric(s) ==
    LET r == numeric_identifier(s)
    IN  IF r.ok THEN r.len # Len(s) ELSE TRUE

IsMetaChar(c) == IsDigit(c) \/ c \in Letters \/ c \in {"-", "."}

\* semver-parser common::letters_numbers_dash_dot: length of the prefix
RECURSIVE letters_numbers_dash_dot(_)
letters_numbers_dash_dot(s) ==
    IF s = <<>> \/ ~IsMetaChar(s[1]) THEN 0
    ELSE 1 + letters_numbers_dash_dot(Tail(s))

\* str::split(".")
RECURSIVE SplitDot(_)
SplitDot(s) ==
    IF \A i \in 1..Len(s) : s[i] # "." THEN <<s>>
    ELSE LET i == CHOOSE j \in 1..Len(s) :
                      s[j] = "." /\ \A k \in 1..(j - 1) : s[k] # "."
         IN  <<Take(s, i - 1)>> \o SplitDot(Drop(s, i))

\* semver-parser common::parse_meta
parse_meta(s) ==
    LET parts == SplitDot(s)
    IN  [i \in 1..Len(parts) |->
            IF is_alpha_numeric(parts[i]) THEN AlphaNumeric(parts[i])
            ELSE Numeric(numeric_identifier(parts[i]).val)]

\* semver-parser common::parse_optional_meta
parse_optional_meta(s, prefix_char) ==
    IF s # <<>> /\ s[1] = prefix_char
    THEN LET n == letters_numbers_dash_dot(Tail(s))
         IN  IF n = 0 THEN [ok |-> FALSE, val |-> <<>>, len |-> 0]
             ELSE [ok |-> TRUE, val |-> parse_meta(Take(Tail(s), n)),
                   len |-> n + 1]
    ELSE [ok |-> TRUE, val |-> <<>>, len |-> 0]

\* ------------------------------------------------------------- versions
MkVersion(major, minor, patch, pre, build) ==
    [major |-> major, minor |-> minor, patch |-> patch,
     pre |-> pre, build |-> build]

NoVersion == [ok |-> FALSE, val |-> MkVersion(0, 0, 0, <<>>, <<>>)]

\* str::trim
RECURSIVE trim(_)
trim(s) ==
    IF s # <<>> /\ s[1] = " " THEN trim(Tail(s))
    ELSE IF s # <<>> /\ s[Len(s)] = " " THEN trim(Take(s, Len(s) - 1))
    ELSE s

\* the parser's position: what is left of the input, what was parsed
PStart(s) == [ok |-> TRUE, rest |-> s, nums |-> <<>>, metas |-> <<>>]

PFail == [ok |-> FALSE, rest |-> <<>>, nums |-> <<>>, metas |-> <<>>]

PNumStep(st, r) ==
    IF st.ok /\ r.ok
    THEN [st EXCEPT !.rest = Drop(st.rest, r.len),
                    !.nums = Append(st.nums, r.val)]
    ELSE PFail

\* a numeric identifier, or "Error parsing major identifier" and the like
PNum(st) == PNumStep(st, numeric_identifier(st.rest))

\* a '.', or "Expected dot"
PDot(st) ==
    IF st.ok /\ st.rest # <<>> /\ st.rest[1] = "."
    THEN [st EXCEPT !.rest = Tail(st.rest)]
    ELSE PFail

PMetaStep(st, r) ==
    IF st.ok /\ r.ok
    THEN [st EXCEPT !.rest = Drop(st.rest, r.len),
                    !.metas = Append(st.metas, r.val)]
    ELSE PFail

PMeta(st, prefix_char) ==
    PMetaStep(st, parse_optional_meta(st.rest, prefix_char))

\* "Extra junk after valid version" unless the input is used up
PFinish(st) ==
    IF st.ok /\ st.rest = <<>>
    THEN [ok |-> TRUE,
          val |-> MkVersion(st.nums[1], st.nums[2], st.nums[3],
                            st.metas[1], st.metas[2])]
    ELSE NoVersion

\* semver::Version::parse (semver_parser::version::parse): trim, then
\* major '.' minor '.' patch, an optional '-' pre, an optional '+' build
Version_parse(str) ==
    PFinish(PMeta(PMeta(PNum(PDot(PNum(PDot(PNum(PStart(trim(str))))))),
                        "-"), "+"))

Identifier_to_string(id) ==
    IF id.kind = "Numeric" THEN u64_to_string(id.num) ELSE id.str

\* semver::Version's Display writes the identifiers with "." between them
RECURSIVE JoinIdentifiers(_)
JoinIdentifiers(ids) ==
    IF ids = <<>> THEN <<>>
    ELSE IF Len(ids) = 1 THEN Identifier_to_string(ids[1])
    ELSE Identifier_to_string(ids[1]) \o <<".">> \o JoinIdentifiers(Tail(ids))

\* semver::Version's Display
Version_to_string(v) ==
    u64_to_string(v.major) \o <<".">> \o u64_to_string(v.minor) \o <<".">>
        \o u64_to_string(v.patch)
        \o (IF v.pre = <<>> THEN <<>> ELSE <<"-">> \o JoinIdentifiers(v.pre))
        \o (IF v.build = <<>> THEN <<>>
            ELSE <<"+">> \o JoinIdentifiers(v.build))

\* Vec<String>::join(".")
RECURSIVE Join(_)
Join(strs) ==
    IF strs = <<>> THEN <<>>
    ELSE IF Len(strs) = 1 THEN strs[1]
    ELSE strs[1] \o <<".">> \o Join(Tail(strs))

\* String::from(VersionMetadata): each identifier's text, joined by "."
VersionMetadata_to_string(meta) ==
    Join([i \in 1..Len(meta) |-> Identifier_to_string(meta[i])])

\* Version::parse(..).unwrap().pre
PreOf(parsed) == [ok |-> parsed.ok, val |-> parsed.val.pre]

\* mutant: the label is formatted into the build position of the junk version
VersionMetadata_try_from_build(meta) ==
    PreOf(Version_parse(<<"0", ".", "0", ".", "0", "+">> \o meta))

\* VersionMetadata::try_from: the label is parsed in the pre-release
\* position of a junk version, and only .pre of the result is kept
VersionMetadata_try_from(meta) ==
    PreOf(Version_parse(<<"0", ".", "0", ".", "0", "-">> \o meta))

\* ------------------------------------------------------------- manifest
\* a toml_edit Item: a string, another value, or Item::None
Str(s) == [t |-> "str", s |-> s]

OtherValue == [t |-> "int", s |-> <<>>]

ItemNone == [t |-> "none", s |-> <<>>]

\* a line `key = item` of the manifest text; a line that is no TOML
Line(key, item) == [key |-> key, item |-> item]

JunkLine == Line("", ItemNone)

VersionKey == "package.version"

\* str::parse::<Document>: fails on a line that is no TOML or on a key
\* given twice; the document keeps the lines in order
Document_parse(text) ==
    IF /\ \A i \in 1..Len(text) : text[i] # JunkLine
       /\ \A i, j \in 1..Len(text) : text[i].key = text[j].key => i = j
    THEN [ok |-> TRUE, val |-> text]
    ELSE [ok |-> FALSE, val |-> <<>>]

\* Document's Display
Document_to_string(manifest) == manifest

\* manifest["package"]["version"] read: Item::None when absent
Index(manifest, key) ==
    IF \E i \in 1..Len(manifest) : manifest[i].key = key
    THEN manifest[CHOOSE i \in 1..Len(manifest) : manifest[i].key = key].item
    ELSE ItemNone

\* manifest["package"]["version"] = item: in place, or appended when absent
IndexMut(manifest, key, item) ==
    IF \E i \in 1..Len(manifest) : manifest[i].key = key
    THEN [i \in 1..Len(manifest) |->
            IF manifest[i].key = key THEN Line(key, item) ELSE manifest[i]]
    ELSE Append(manifest, Line(key, item))

\* ------------------------------------------------------------- program
\* what a call returns: a value, or the panic that ended the process
Ok(v) == [ok |-> TRUE, val |-> v, err |-> "none"]

Panic(e) == [ok |-> FALSE, val |-> <<>>, err |-> e]

File(content) == [exists |-> TRUE, content |-> content]

NoFile == [exists |-> FALSE, content |-> <<>>]

read_manifest(file) ==
    IF ~file.exists THEN Panic("Could not find Cargo.toml")
    ELSE IF ~Document_parse(file.content).ok THEN Panic("Invalid Cargo.toml")
    ELSE Ok(Document_parse(file.content).val)

\* open(write, truncate) then write_all: the file is emptied by the open,
\* before the first byte is written.  disk is what the file system does.
write_manifest(file, manifest, disk) ==
    IF ~file.exists \/ disk = "open_fails"
    THEN [file |-> file, err |-> "Could not find Cargo.toml to write to."]
    ELSE IF disk = "write_fails"
    THEN [file |-> File(<<>>),
          err |-> "Failed to write updated manifest to Cargo.toml"]
    ELSE [file |-> File(Document_to_string(manifest)), err |-> "none"]

\* Version::parse(version_str).expect("Invalid package version: ..")
ExpectVersion(parsed) ==
    IF parsed.ok THEN Ok(parsed.val) ELSE Panic("Invalid package version")

\* item.as_str().unwrap(), then the parse
VersionOfItem(item) ==
    IF item.t # "str" THEN Panic("unwrap on None")
    ELSE ExpectVersion(Version_parse(item.s))

read_version(manifest) == VersionOfItem(Index(manifest, VersionKey))

\* mutant: --minor and --patch print each other's component
Component_swapped(v, matches) ==
    IF matches.flag = "major" THEN Ok(u64_to_string(v.major))
    ELSE IF matches.flag = "minor" THEN Ok(u64_to_string(v.patch))
    ELSE IF matches.flag = "patch" THEN Ok(u64_to_string(v.minor))
    ELSE IF matches.flag = "pre" THEN Ok(VersionMetadata_to_string(v.pre))
    ELSE IF matches.flag = "build" THEN Ok(VersionMetadata_to_string(v.build))
    ELSE IF matches.flag = "version" THEN Ok(Version_to_string(v))
    ELSE Panic("Unreachable")

\* the if-chain of read over the parsed version
Component(v, matches) ==
    IF matches.flag = "major" THEN Ok(u64_to_string(v.major))
    ELSE IF matches.flag = "minor" THEN Ok(u64_to_string(v.minor))
    ELSE IF matches.flag = "patch" THEN Ok(u64_to_string(v.patch))
    ELSE IF matches.flag = "pre" THEN Ok(VersionMetadata_to_string(v.pre))
    ELSE IF matches.flag = "build" THEN Ok(VersionMetadata_to_string(v.build))
    ELSE IF matches.flag = "version" THEN Ok(Version_to_string(v))
    ELSE Panic("Unreachable")

ReadOf(version, matches) ==
    IF version.ok THEN Component(version.val, matches) ELSE version

read(manifest, matches) == ReadOf(read_version(manifest), matches)

\* x += 1 on a u64: panics when the build checks overflow, wraps otherwise
AddOne(x, checks) ==
    IF x = U64Max
    THEN IF checks THEN Panic("attempt to add with overflow") ELSE Ok(0)
    ELSE Ok(x + 1)

\* semver::Version::increment_major
increment_major(v, checks) ==
    LET n == AddOne(v.major, checks)
    IN  IF n.ok THEN Ok(MkVersion(n.val, 0, 0, <<>>, <<>>)) ELSE n

\* semver::Version::increment_minor
increment_minor(v, checks) ==
    LET n == AddOne(v.minor, checks)
    IN  IF n.ok THEN Ok(MkVersion(v.major, n.val, 0, <<>>, <<>>)) ELSE n

\* semver::Version::increment_patch
increment_patch(v, checks) ==
    LET n == AddOne(v.patch, checks)
    IN  IF n.ok THEN Ok(MkVersion(v.major, v.minor, n.val, <<>>, <<>>)) ELSE n

\* version.pre = VersionMetadata::try_from(pre).unwrap().0
SetPre(v, meta) ==
    IF meta.ok THEN Ok([v EXCEPT !.pre = meta.val])
    ELSE Panic("unwrap on Err: label")

\* version.build = VersionMetadata::try_from(build).unwrap().0
SetBuild(v, meta) ==
    IF meta.ok THEN Ok([v EXCEPT !.build = meta.val])
    ELSE Panic("unwrap on Err: label")

\* mutant: only major, minor, patch and pre are taken from the new version
SetVersion_keeps_build(v, parsed) ==
    IF parsed.ok THEN Ok([parsed.val EXCEPT !.build = v.build])
    ELSE Panic("Invalid new version given")

\* version.clone_from(&Version::parse(new_version_str).expect(..))
SetVersion(v, parsed) ==
    IF parsed.ok THEN Ok(parsed.val) ELSE Panic("Invalid new version given")

\* the if-chain of bump: the new version value, or the panic
bump_version(v, matches, checks) ==
    IF matches.flag = "major" THEN increment_major(v, checks)
    ELSE IF matches.flag = "minor" THEN increment_minor(v, checks)
    ELSE IF matches.flag = "patch" THEN increment_patch(v, checks)
    ELSE IF matches.flag = "pre"
    THEN SetPre(v, VersionMetadata_try_from(matches.value))
    ELSE IF matches.flag = "build"
    THEN SetBuild(v, VersionMetadata_try_from(matches.value))
    ELSE IF matches.flag = "version"
    THEN SetVersion(v, Version_parse(matches.value))
    ELSE Panic("Unreachable")

\* mutant: the version is stored in a fresh document
StoreVersion_fresh(manifest, new) ==
    IF new.ok
    THEN Ok(IndexMut(<<>>, VersionKey, Str(Version_to_string(new.val))))
    ELSE new

\* manifest["package"]["version"] = value(version.to_string())
StoreVersion(manifest, new) ==
    IF new.ok
    THEN Ok(IndexMut(manifest, VersionKey, Str(Version_to_string(new.val))))
    ELSE new

BumpOf(manifest, version, matches, checks) ==
    IF version.ok
    THEN StoreVersion(manifest, bump_version(version.val, matches, checks))
    ELSE version

\* the manifest with the bumped version in place, or the panic
bump(manifest, matches, checks) ==
    BumpOf(manifest, read_version(manifest), matches, checks)

\* one run of the process: the file it leaves, what it printed, how it ended
Outcome(file, stdout, err) ==
    [file |-> file, stdout |-> stdout, err |-> err,
     exit |-> IF err = "none" THEN 0 ELSE 101]

Written(written) == Outcome(written.file, <<>>, written.err)

\* mutant: the file is opened, and so emptied, before bump has run
BumpArm_opens_first(file, bumped, disk) ==
    IF bumped.ok THEN Written(write_manifest(file, bumped.val, disk))
    ELSE Outcome(File(<<>>), <<>>, bumped.err)

\* bump(&mut manifest, ..); write_manifest(manifest, manifest_path)
BumpArm(file, bumped, disk) ==
    IF bumped.ok THEN Written(write_manifest(file, bumped.val, disk))
    ELSE Outcome(file, <<>>, bumped.err)

\* let component = read(..); writeln!(stdout, "{}", component)
ReadArm(file, component) ==
    IF component.ok THEN Outcome(file, component.val \o <<"\n">>, "none")
    ELSE Outcome(file, <<>>, component.err)

\* match matches.subcommand()
Subcommand(file, manifest, matches, disk, checks) ==
    IF ~manifest.ok THEN Outcome(file, <<>>, manifest.err)
    ELSE IF matches.sub = "bump"
    THEN BumpArm(file, bump(manifest.val, matches, checks), disk)
    ELSE IF matches.sub = "read"
    THEN ReadArm(file, read(manifest.val, matches))
    ELSE Outcome(file, <<>>, "Unreachable")

execute(file, matches, disk, checks) ==
    Subcommand(file, read_manifest(file), matches, disk, checks)

\* ------------------------------------------------------------- inputs
Flags == {"major", "minor", "patch", "pre", "build", "version"}

MetaFlags == {"pre", "build"}

DiskOutcomes == {"ok", "open_fails", "write_fails"}

Matches(sub, flag, value) == [sub |-> sub, flag |-> flag, value |-> value]

\* a Cargo.toml with this item at package.version
ManifestText(item) ==
    <<Line("package.name", Str(<<"x">>)),
      Line(VersionKey, item),
      Line("dependencies.semver", Str(<<"0", ".", "9">>))>>

InitNums == {9, U64Max}

InitPre == {<<>>, <<AlphaNumeric(<<"a">>), Numeric(1)>>}

InitBuild == {<<>>, <<AlphaNumeric(<<"b">>)>>}

\* manifest_strat: the rendering of a version value
InitVersionStrings ==
    {Version_to_string(MkVersion(ma, mi, pa, pre, build)) :
        ma \in InitNums, mi \in InitNums, pa \in InitNums,
        pre \in InitPre, build \in InitBuild}

BadVersionStrings ==
    {<<>>,
     <<"1", ".", "2">>,
     <<"0", "1", ".", "0", ".", "0">>,
     <<"1", ".", "0", ".", "0", "-">>}

InitFiles ==
    {NoFile,
     File(<<JunkLine>>),
     File(<<Line("package.name", Str(<<"x">>))>>),
     File(ManifestText(OtherValue))}
    \cup {File(ManifestText(Str(s))) :
            s \in InitVersionStrings \cup BadVersionStrings}

SampleLabels ==
    {<<>>,
     <<"r", "c", ".", "2">>,
     <<"0", "1">>,
     <<"a", "+", "b">>,
     <<"x", "_">>}

SampleVersionArgs ==
    {<<"6", ".", "0", ".", "0", "-", "b", "e", "t", "a">>,
     <<" ", "1", ".", "2", ".", "3", "+", "7">>,
     <<"0", ".", "0", ".", "1", "-", "0", "7", ".", "x", "+", "b", ".", "1">>,
     <<"n", "o", "t", "-", "a", "-", "v", "e", "r", "s", "i", "o", "n">>,
     <<"1", ".", "0">>}

BumpMatches ==
    {Matches("bump", f, <<>>) : f \in {"major", "minor", "patch"}}
    \cup {Matches("bump", f, l) : f \in MetaFlags, l \in SampleLabels}
    \cup {Matches("bump", "version", s) : s \in SampleVersionArgs}

LabelChars == {"0", "1", "a", "-", ".", "+"}

\* every string over LabelChars of at most MaxLabelLen characters
Labels == UNION {[1..n -> LabelChars] : n \in 0..MaxLabelLen}

LabelInitVersionStrings ==
    {<<"1", ".", "2", ".", "3">>,
     <<"1", ".", "2", ".", "3", "-", "a", ".", "1", "+", "b">>}

\* ------------------------------------------------------------- state machine
NoInvocation ==
    [sub |-> "none", flag |-> "none", value |-> <<>>, disk |-> "ok",
     old |-> NoFile, stdout |-> <<>>, err |-> "none", exit |-> 0]

Init ==
    /\ fs \in InitFiles
    /\ last = NoInvocation
    /\ bumps = 0
    /\ overflow_checks \in BOOLEAN

\* the process has run: the file it left and the record of the run
Ran(matches, disk, out) ==
    /\ fs' = out.file
    /\ last' = [sub |-> matches.sub, flag |-> matches.flag,
                value |-> matches.value, disk |-> disk, old |-> fs,
                stdout |-> out.stdout, err |-> out.err, exit |-> out.exit]
    /\ bumps' = IF matches.sub = "bump" THEN bumps + 1 ELSE bumps
    /\ UNCHANGED overflow_checks

\* main: one invocation of the program on the manifest
Invoke(matches, disk) ==
    Ran(matches, disk, execute(fs, matches, disk, overflow_checks))

RunRead == \E flag \in Flags : Invoke(Matches("read", flag, <<>>), "ok")

RunBump ==
    /\ bumps < MaxBumps
    /\ \E m \in BumpMatches, disk \in DiskOutcomes : Invoke(m, disk)

Next == RunRead \/ RunBump

Spec == Init /\ [][Next]_vars

\* bump --pre / --build with every label, from a valid manifest
InitLabels ==
    /\ fs \in {File(ManifestText(Str(s))) : s \in LabelInitVersionStrings}
    /\ last = NoInvocation
    /\ bumps = 0
    /\ overflow_checks = TRUE

RunBumpLabel ==
    /\ bumps = 0
    /\ \E flag \in MetaFlags, label \in Labels :
          Invoke(Matches("bump", flag, label), "ok")

NextLabels == RunRead \/ RunBumpLabel

SpecLabels == InitLabels /\ [][NextLabels]_vars

\* ------------------------------------------------------------- reading a run
\* the file holds a manifest whose package.version is a semantic version
HasValidVersion(file) ==
    /\ file.exists
    /\ Document_parse(file.content).ok
    /\ Index(file.content, VersionKey).t = "str"
    /\ Version_parse(Index(file.content, VersionKey).s).ok

\* the version value stored in the file
StoredVersion(file) == Version_parse(Index(file.content, VersionKey).s).val

\* the text stored at package.version
StoredString(file) == Index(file.content, VersionKey).s

WriteFailure == "Failed to write updated manifest to Cargo.toml"

Increments == {"major", "minor", "patch"}

C2_BumpMajor ==
    (last.sub = "bump" /\ last.flag = "major" /\ last.exit = 0)
        => /\ HasValidVersion(fs)
           /\ StoredVersion(fs).major = StoredVersion(last.old).major + 1
           /\ StoredVersion(fs).minor = 0
           /\ StoredVersion(fs).patch = 0
           /\ StoredVersion(fs).pre = <<>>
           /\ StoredVersion(fs).build = <<>>

\* C3: bump --minor writes a version whose minor is the old minor + 1, whose
\* patch is 0, whose pre-release is empty and whose major is unchanged.
C3_BumpMinor ==
    (last.sub = "bump" /\ last.flag = "minor" /\ last.exit = 0)
        => /\ HasValidVersion(fs)
           /\ StoredVersion(fs).minor = StoredVersion(last.old).minor + 1
           /\ StoredVersion(fs).patch = 0
           /\ StoredVersion(fs).pre = <<>>
           /\ StoredVersion(fs).major = StoredVersion(last.old).major

\* C4: bump --patch writes a version whose patch is the old patch + 1, whose
\* pre-release is empty and whose major and minor are unchanged.
C4_BumpPatch ==
    (last.sub = "bump" /\ last.flag = "patch" /\ last.exit = 0)
        => /\ HasValidVersion(fs)
           /\ StoredVersion(fs).patch = StoredVersion(last.old).patch + 1
           /\ StoredVersion(fs).pre = <<>>
           /\ StoredVersion(fs).major = StoredVersion(last.old).major
           /\ StoredVersion(fs).minor = StoredVersion(last.old).minor

\* the component of a version that a flag names
ComponentOf(v, flag) ==
    IF flag = "major" THEN v.major
    ELSE IF flag = "minor" THEN v.minor
    ELSE v.patch

\* C10: for every stored version, the largest integer included, bump --major,
\* --minor or --patch leaves in the manifest a version whose bumped component
\* is the old one + 1: it never wraps to 0.
C10_NoWrap ==
    (/\ last.sub = "bump" /\ last.flag \in Increments
     /\ last.disk = "ok"
     /\ HasValidVersion(last.old))
        => /\ HasValidVersion(fs)
           /\ ComponentOf(StoredVersion(fs), last.flag)
                 = ComponentOf(StoredVersion(last.old), last.flag) + 1

\* ------------------------------------------------------------- C5, C6
\* the identifier-segment grammar: segments of letters, digits and hyphens,
\* none empty, separated by dots
InGrammar(label) ==
    /\ label # <<>>
    /\ \A i \in 1..Len(label) : IsMetaChar(label[i])
    /\ label[1] # "." /\ label[Len(label)] # "."
    /\ \A i \in 1..(Len(label) - 1) : ~(label[i] = "." /\ label[i + 1] = ".")

\* a segment of digits only that starts with 0 and is not "0"
LeadingZero(seg) ==
    /\ Len(seg) > 1
    /\ \A i \in 1..Len(seg) : IsDigit(seg[i])
    /\ seg[1] = "0"

\* the pre-release grammar: the segment grammar, and no numeric segment
\* with a leading zero
InPreReleaseGrammar(label) ==
    /\ InGrammar(label)
    /\ \A i \in 1..Len(SplitDot(label)) : ~LeadingZero(SplitDot(label)[i])

\* C5: for every label of the identifier-segment grammar, bump --pre <label>
\* succeeds and a following read --pre prints exactly <label> and a newline;
\* the same for --build, whatever version was stored.
C5_LabelReadBack ==
    [][/\ (/\ last'.sub = "bump" /\ last'.flag \in MetaFlags
           /\ InGrammar(last'.value)
           /\ HasValidVersion(last'.old))
              => last'.exit = 0
       /\ (/\ last.sub = "bump" /\ last.flag \in MetaFlags
           /\ InGrammar(last.value)
           /\ last.exit = 0
           /\ last'.sub = "read" /\ last'.flag = last.flag)
              => (last'.exit = 0 /\ last'.stdout = last.value \o <<"\n">>)
      ]_vars

\* read --pre has printed the label a.0, which only bump --pre a.0 stores
C5_Witness ==
    /\ last.sub = "read" /\ last.flag = "pre"
    /\ last.exit = 0
    /\ last.stdout = <<"a", ".", "0", "\n">>

\* C6: bump --pre <label> and bump --build <label> fail, writing nothing,
\* whenever the label is outside the pre-release grammar (an empty segment,
\* the empty label, a character such as '+', a numeric segment with a
\* leading zero), and --build accepts exactly the labels --pre accepts.
C6_InvalidLabelFails ==
    (/\ last.sub = "bump" /\ last.flag \in MetaFlags
     /\ HasValidVersion(last.old)
     /\ last.disk = "ok")
        => /\ (last.exit = 0) <=> InPreReleaseGrammar(last.value)
           /\ last.exit # 0 => fs = last.old

\* ------------------------------------------------------------- C7, C8, C9
\* decimal digits of n
RECURSIVE Decimal(_)
Decimal(n) ==
    IF n < 10 THEN <<Digits[n + 1]>>
    ELSE Decimal(n \div 10) \o <<Digits[(n % 10) + 1]>>

\* the text of one identifier
IdentifierText(id) == IF id.kind = "Numeric" THEN Decimal(id.num) ELSE id.str

\* identifiers joined by '.', the empty string for none
RECURSIVE Dotted(_)
Dotted(ids) ==
    IF ids = <<>> THEN <<>>
    ELSE IF Len(ids) = 1 THEN IdentifierText(ids[1])
    ELSE IdentifierText(ids[1]) \o <<".">> \o Dotted(Tail(ids))

\* major.minor.patch[-pre][+build]
Canonical(v) ==
    Decimal(v.major) \o <<".">> \o Decimal(v.minor) \o <<".">>
        \o Decimal(v.patch)
        \o (IF v.pre = <<>> THEN <<>> ELSE <<"-">> \o Dotted(v.pre))
        \o (IF v.build = <<>> THEN <<>> ELSE <<"+">> \o Dotted(v.build))

\* what read is to print for a selector
Selected(v, flag) ==
    IF flag = "major" THEN Decimal(v.major)
    ELSE IF flag = "minor" THEN Decimal(v.minor)
    ELSE IF flag = "patch" THEN Decimal(v.patch)
    ELSE IF flag = "pre" THEN Dotted(v.pre)
    ELSE IF flag = "build" THEN Dotted(v.build)
    ELSE Canonical(v)

\* C7: for every valid full version string s, bump --version s stores the
\* canonical rendering of s, nothing of the old version kept, and a following
\* read --version prints exactly that rendering and a newline.
C7_SetFull ==
    [][/\ (/\ last'.sub = "bump" /\ last'.flag = "version"
           /\ Version_parse(last'.value).ok
           /\ HasValidVersion(last'.old)
           /\ last'.disk = "ok")
              => /\ last'.exit = 0
                 /\ StoredString(fs') = Canonical(Version_parse(last'.value).val)
                 /\ StoredVersion(fs') = Version_parse(last'.value).val
       /\ (/\ last.sub = "bump" /\ last.flag = "version" /\ last.exit = 0
           /\ last'.sub = "read" /\ last'.flag = "version")
              => /\ last'.exit = 0
                 /\ last'.stdout
                       = Canonical(Version_parse(last.value).val) \o <<"\n">>
      ]_vars

\* read --version has printed 1.2.3+7, stored by bump --version " 1.2.3+7"
C7_Witness ==
    /\ last.sub = "read" /\ last.flag = "version"
    /\ last.exit = 0
    /\ last.stdout = <<"1", ".", "2", ".", "3", "+", "7", "\n">>

\* C8: for every valid stored version and each of the six selectors, read
\* prints exactly the selected component and one newline: the integer in
\* decimal, the identifiers joined by '.', or the full canonical rendering;
\* it exits with 0 and leaves the manifest as it was.
C8_ReadPrints ==
    (last.sub = "read" /\ HasValidVersion(last.old))
        => /\ last.exit = 0
           /\ last.stdout
                 = Selected(StoredVersion(last.old), last.flag) \o <<"\n">>
           /\ fs = last.old

\* read --minor has printed the largest integer, stored as the minor of a
\* version with a pre-release
C8_Witness ==
    /\ last.sub = "read" /\ last.flag = "minor"
    /\ HasValidVersion(last.old)
    /\ StoredVersion(last.old).minor = U64Max
    /\ StoredVersion(last.old).major = 9
    /\ StoredVersion(last.old).pre # <<>>
    /\ last.stdout = Decimal(U64Max) \o <<"\n">>

\* C9: a successful bump changes only the value of package.version: the
\* manifest has the same lines with the same keys, and every line but that
\* of package.version is as it was.
C9_OnlyVersionChanges ==
    (last.sub = "bump" /\ last.exit = 0)
        => /\ fs.exists
           /\ Len(fs.content) = Len(last.old.content)
           /\ \A i \in 1..Len(fs.content) :
                 /\ fs.content[i].key = last.old.content[i].key
                 /\ fs.content[i].key # VersionKey
                       => fs.content[i] = last.old.content[i]

\* a bump has succeeded and the stored version is another one
C9_Witness ==
    /\ last.sub = "bump" /\ last.exit = 0
    /\ Len(fs.content) > 1
    /\ StoredString(fs) # StoredString(last.old)

\* ------------------------------------------------------------- C11
\* the version value bump computes in a run from the file as it was
ComputedVersion(file, matches, checks) ==
    bump_version(StoredVersion(file), matches, checks)

\* C11: over sequences of invocations, a manifest whose package.version is a
\* semantic version still holds one after any read or bump, succeeding or
\* failing, so no later run fails on the stored version; and the string a
\* successful bump writes parses back to exactly the version bump computed.
C11_StaysValid ==
    [][/\ HasValidVersion(fs) => HasValidVersion(fs')
       /\ (HasValidVersion(fs) /\ last'.sub = "bump" /\ last'.exit = 0)
             => /\ ComputedVersion(fs, last', overflow_checks).ok
                /\ StoredVersion(fs')
                      = ComputedVersion(fs, last', overflow_checks).val
      ]_vars

=============================================================================
